---- MODULE Spec2Model ----
(***************************************************************************)
(* PyReactTranspiler (src/pyreact.py): the transpiler instance as a state  *)
(* machine (component registry, stored local-variable map) and its pure    *)
(* expression / statement / element-call transpilers as operators.         *)
(*                                                                         *)
(* Emitted text is a sequence of tokens; string concatenation and f-string *)
(* composition are \o.  Python dicts are insertion-ordered: a sequence of  *)
(* [k, v] entries with unique keys.                                        *)
(***************************************************************************)
EXTENDS Naturals, Sequences, FiniteSets, TLC

\* ------------------------------------------------------------------ text
Q == "\""

\* the template-literal delimiter (the character itself cannot be written in a
\* string of this language)
BackQuote == "<backquote>"

RECURSIVE Join(_, _)
\* sep.join(texts)
Join(texts, sep) ==
  IF texts = <<>> THEN <<>>
  ELSE IF Len(texts) = 1 THEN texts[1]
  ELSE texts[1] \o sep \o Join(Tail(texts), sep)

QuoteChars == {"\"", "'"}

RECURSIVE LStrip(_)
LStrip(t) == IF t # <<>> /\ t[1] \in QuoteChars THEN LStrip(Tail(t)) ELSE t

RECURSIVE RStrip(_)
RStrip(t) ==
  IF t # <<>> /\ t[Len(t)] \in QuoteChars THEN RStrip(SubSeq(t, 1, Len(t) - 1)) ELSE t

\* text.strip('"\'')
Strip(t) == RStrip(LStrip(t))

\* str(value).lower() for a bool
Lower(s) == IF s = "True" THEN "true" ELSE IF s = "False" THEN "false" ELSE s

Contains(t, tok) == \E i \in 1..Len(t) : t[i] = tok

\* ------------------------------------------------------- ordered dicts
EmptyDict == <<>>

DictHas(d, key) == \E i \in 1..Len(d) : d[i].k = key

DictGet(d, key) == d[CHOOSE i \in 1..Len(d) : d[i].k = key].v

\* variant: re-assigning an existing key moves it to the end
DictSet_MoveToEnd(d, key, val) ==
  Append(SelectSeq(d, LAMBDA e : e.k # key), [k |-> key, v |-> val])

\* d[key] = val : an existing key keeps its position, a new key is appended
DictSet(d, key, val) ==
  IF DictHas(d, key)
  THEN [i \in 1..Len(d) |-> IF d[i].k = key THEN [k |-> key, v |-> val] ELSE d[i]]
  ELSE Append(d, [k |-> key, v |-> val])

\* ------------------------------------------------------------ ast nodes
Name(id) == [kind |-> "Name", id |-> id]
\* value holds str(node.value); ctype is the Python type of node.value
Constant(ctype, value) == [kind |-> "Constant", ctype |-> ctype, value |-> value]
Attribute(value, attr) == [kind |-> "Attribute", value |-> value, attr |-> attr]
Subscript(value, slice) == [kind |-> "Subscript", value |-> value, slice |-> slice]
BinOp(left, op, right) == [kind |-> "BinOp", left |-> left, op |-> op, right |-> right]
keyword(arg, value) == [arg |-> arg, value |-> value]
Call(func, args, keywords) ==
  [kind |-> "Call", func |-> func, args |-> args, keywords |-> keywords]
Dict(keys, values) == [kind |-> "Dict", keys |-> keys, values |-> values]
List(elts) == [kind |-> "List", elts |-> elts]
FormattedValue(value) == [kind |-> "FormattedValue", value |-> value]
JoinedStr(values) == [kind |-> "JoinedStr", values |-> values]
\* an expression kind the transpiler has no branch for
Compare(left, right) == [kind |-> "Compare", left |-> left, right |-> right]
\* the absent value of a bare `return`
NoneNode == [kind |-> "None"]

Expr(value) == [kind |-> "Expr", value |-> value]
Assign(targets, value) == [kind |-> "Assign", targets |-> targets, value |-> value]
Return(value) == [kind |-> "Return", value |-> value]
Pass == [kind |-> "Pass"]
\* a statement kind the transpiler has no branch for (target op= value)
AugAssign(target, op, value) ==
  [kind |-> "AugAssign", target |-> target, op |-> op, value |-> value]
FunctionDef(name, body) == [kind |-> "FunctionDef", name |-> name, body |-> body]
ClassDef(name, body) == [kind |-> "ClassDef", name |-> name, body |-> body]

Str(s) == Constant("str", s)
Num(s) == Constant("int", s)
Bool(s) == Constant("bool", s)
Self == Name("self")
SelfState == Attribute(Self, "state")
SelfProps == Attribute(Self, "props")

\* ------------------------------------------------------------ instance
\* hasattr(self, 'local_variables') is false until the first render method
\* is transpiled
NoLocalVariables == [has |-> FALSE, d |-> EmptyDict]

LocalVariables(d) == [has |-> TRUE, d |-> d]

Instance(comps, lv) == [components |-> comps, local_variables |-> lv]

\* ------------------------------------------------- expression transpiler
RECURSIVE _transpile_expression(_, _)
RECURSIVE _transpile_dict_literal(_, _)
RECURSIVE _transpile_attribute_access(_, _)
RECURSIVE _transpile_binary_operation(_, _)
RECURSIVE _transpile_f_string(_, _)
RECURSIVE _transpile_function_call(_, _)
RECURSIVE _transpile_element_expression(_, _)
RECURSIVE _transpile_element_call(_, _)

_transpile_subscript(self, subscript_node) ==
  IF /\ subscript_node.value.kind = "Attribute"
     /\ subscript_node.value.value.kind = "Name"
     /\ subscript_node.value.value.id = "self"
     /\ subscript_node.value.attr = "state"
     /\ subscript_node.slice.kind = "Constant"
  THEN <<"state", ".", subscript_node.slice.value>>
  ELSE <<"null">>

_transpile_dict_literal(self, dict_node) ==
  LET pairs == [i \in 1..Len(dict_node.keys) |->
                  _transpile_expression(self, dict_node.keys[i]) \o <<": ">>
                    \o _transpile_expression(self, dict_node.values[i])]
  IN <<"{">> \o Join(pairs, <<", ">>) \o <<"}">>

_transpile_attribute_access(self, attr_node) ==
  IF /\ attr_node.value.kind = "Name"
     /\ attr_node.value.id = "self"
     /\ attr_node.attr = "state"
  THEN <<"state">>
  ELSE _transpile_expression(self, attr_node.value) \o <<".", attr_node.attr>>

\* variant: an operator outside the four arithmetic ones is written by its name
BinaryText_NamedOperator(op, left, right) ==
  CASE op = "Add"  -> left \o <<" + ">> \o right
    [] op = "Sub"  -> left \o <<" - ">> \o right
    [] op = "Mult" -> left \o <<" * ">> \o right
    [] op = "Div"  -> left \o <<" / ">> \o right
    [] OTHER       -> left \o <<" ", op, " ">> \o right

\* the operator dispatch of _transpile_binary_operation on the operand texts
BinaryText(op, left, right) ==
  CASE op = "Add"  -> left \o <<" + ">> \o right
    [] op = "Sub"  -> left \o <<" - ">> \o right
    [] op = "Mult" -> left \o <<" * ">> \o right
    [] op = "Div"  -> left \o <<" / ">> \o right
    [] OTHER       -> left \o <<" ">> \o right

_transpile_binary_operation(self, binop_node) ==
  BinaryText(binop_node.op,
             IF /\ binop_node.left.kind = "Subscript"
                /\ binop_node.left.value.kind = "Attribute"
                /\ binop_node.left.value.value.kind = "Name"
                /\ binop_node.left.value.value.id = "self"
                /\ binop_node.left.value.attr = "state"
             THEN _transpile_subscript(self, binop_node.left)
             ELSE _transpile_expression(self, binop_node.left),
             _transpile_expression(self, binop_node.right))

\* variant: a tracked local is replaced by its stored text instead of its name
FStringPart_StoredText(self, value) ==
  IF value.kind = "Constant" THEN <<value.value>>
  ELSE IF value.kind = "FormattedValue" THEN
    IF value.value.kind = "Name" THEN
      IF /\ self.local_variables.has
         /\ DictHas(self.local_variables.d, value.value.id)
      THEN <<"${">> \o DictGet(self.local_variables.d, value.value.id) \o <<"}">>
      ELSE <<"${">> \o _transpile_expression(self, value.value) \o <<"}">>
    ELSE
      LET expr_js == IF value.value.kind = "Subscript"
                     THEN _transpile_subscript(self, value.value)
                     ELSE _transpile_expression(self, value.value)
      IN <<"${">> \o expr_js \o <<"}">>
  ELSE <<>>

\* one element of JoinedStr.values in _transpile_f_string
FStringPart(self, value) ==
  IF value.kind = "Constant" THEN <<value.value>>
  ELSE IF value.kind = "FormattedValue" THEN
    IF value.value.kind = "Name" THEN
      IF /\ self.local_variables.has
         /\ DictHas(self.local_variables.d, value.value.id)
      THEN <<"${", value.value.id, "}">>
      ELSE <<"${">> \o _transpile_expression(self, value.value) \o <<"}">>
    ELSE
      LET expr_js == IF value.value.kind = "Subscript"
                     THEN _transpile_subscript(self, value.value)
                     ELSE _transpile_expression(self, value.value)
      IN <<"${">> \o expr_js \o <<"}">>
  ELSE <<>>

_transpile_f_string(self, joinedstr_node) ==
  LET parts == [i \in 1..Len(joinedstr_node.values) |->
                  FStringPart(self, joinedstr_node.values[i])]
  IN <<BackQuote>> \o Join(parts, <<>>) \o <<BackQuote>>

\* the Name branch of _transpile_function_call on the argument texts
NameCallText(func_name, args) ==
  <<func_name, "(">> \o Join(args, <<", ">>) \o <<")">>

\* the Attribute branch of _transpile_function_call on the object and argument texts
MethodCallText(call_node, obj_js, method_name, args) ==
  IF /\ call_node.func.value.kind = "Attribute"
     /\ call_node.func.value.value.kind = "Name"
     /\ call_node.func.value.value.id = "self"
     /\ call_node.func.value.attr = "props"
     /\ method_name = "get"
     /\ Len(args) = 2
  THEN <<"(", "props", ".">> \o Strip(args[1]) \o <<" || ">> \o args[2] \o <<")">>
  ELSE obj_js \o <<".", method_name, "(">> \o Join(args, <<", ">>) \o <<")">>

_transpile_function_call(self, call_node) ==
  IF call_node.func.kind = "Name" THEN
    NameCallText(call_node.func.id,
                 [i \in 1..Len(call_node.args) |->
                    _transpile_expression(self, call_node.args[i])])
  ELSE IF call_node.func.kind = "Attribute" THEN
    MethodCallText(call_node,
                   _transpile_expression(self, call_node.func.value),
                   call_node.func.attr,
                   [i \in 1..Len(call_node.args) |->
                      _transpile_expression(self, call_node.args[i])])
  ELSE <<"null">>

_transpile_expression(self, expr) ==
  CASE expr.kind = "Dict"       -> _transpile_dict_literal(self, expr)
    [] expr.kind = "Constant"   ->
         IF expr.ctype = "str" THEN <<Q, expr.value, Q>>
         ELSE IF expr.ctype = "bool" THEN <<Lower(expr.value)>>
         ELSE <<expr.value>>
    [] expr.kind = "Name"       -> <<expr.id>>
    [] expr.kind = "Attribute"  -> _transpile_attribute_access(self, expr)
    [] expr.kind = "BinOp"      -> _transpile_binary_operation(self, expr)
    [] expr.kind = "JoinedStr"  -> _transpile_f_string(self, expr)
    [] expr.kind = "Call"       -> _transpile_function_call(self, expr)
    [] expr.kind = "Subscript"  -> _transpile_subscript(self, expr)
    [] OTHER                    -> <<"null">>

\* ----------------------------------------------- element-call transpiler
html_elements ==
  {"div", "h1", "h2", "h3", "p", "span", "button", "input_field", "a", "ul",
   "ol", "li", "form", "label", "select", "option", "textarea", "br", "hr", "img"}

\* variant: a bound-method reference keeps its full attribute path
_transpile_prop_value_FullPath(self, value_node) ==
  _transpile_expression(self, value_node)

_transpile_prop_value(self, value_node) ==
  IF /\ value_node.kind = "Attribute"
     /\ value_node.value.kind = "Name"
     /\ value_node.value.id = "self"
  THEN <<value_node.attr>>
  ELSE _transpile_expression(self, value_node)

_build_props_object(props_dict) ==
  IF props_dict = EmptyDict THEN <<"null">>
  ELSE LET prop_pairs == [i \in 1..Len(props_dict) |->
                            <<props_dict[i].k, ": ">> \o props_dict[i].v]
       IN <<"{">> \o Join(prop_pairs, <<", ">>) \o <<"}">>

\* onclick -> onClick, onchange -> onChange, onsubmit -> onSubmit
PropName(arg) ==
  CASE arg = "onclick"  -> "onClick"
    [] arg = "onchange" -> "onChange"
    [] arg = "onsubmit" -> "onSubmit"
    [] OTHER            -> arg

RECURSIVE ElementProps(_, _, _)
\* the props dict after the first n keywords of the call
ElementProps(self, keywords, n) ==
  IF n = 0 THEN EmptyDict
  ELSE DictSet(ElementProps(self, keywords, n - 1),
               PropName(keywords[n].arg),
               _transpile_prop_value(self, keywords[n].value))

\* variant: a nested call is handed to the expression transpiler
ElementChild_NoRecursion(self, arg) ==
  IF arg.kind = "Constant" /\ arg.ctype = "str"
  THEN <<Q, arg.value, Q>>
  ELSE _transpile_expression(self, arg)

\* one positional argument of a builder call in _transpile_element_call
ElementChild(self, arg) ==
  IF arg.kind = "Constant" /\ arg.ctype = "str"
  THEN <<Q, arg.value, Q>>
  ELSE _transpile_element_expression(self, arg)

\* the React.createElement call built at the end of _transpile_element_call
ElementText(tag_name, props_str, children) ==
  IF children # <<>>
  THEN <<"React.createElement(", "'", tag_name, "'", ", ">> \o props_str
         \o <<", ", "[">> \o Join(children, <<", ">>) \o <<"]", ")">>
  ELSE <<"React.createElement(", "'", tag_name, "'", ", ">> \o props_str \o <<")">>

\* props_str of _transpile_element_call
PropsStr(props) == IF props # EmptyDict THEN _build_props_object(props) ELSE <<"null">>

_transpile_element_call(self, call_node) ==
  IF call_node.func.kind = "Name" /\ call_node.func.id \in html_elements THEN
    ElementText(IF call_node.func.id = "input_field" THEN "input" ELSE call_node.func.id,
                PropsStr(ElementProps(self, call_node.keywords, Len(call_node.keywords))),
                [i \in 1..Len(call_node.args) |-> ElementChild(self, call_node.args[i])])
  ELSE <<"null">>

_transpile_element_expression(self, expr) ==
  IF expr.kind = "Call" THEN _transpile_element_call(self, expr)
  ELSE _transpile_expression(self, expr)

\* ------------------------------------------------- statement transpiler
\* variant: the new state replaces the previous state
_transpile_method_call_Replace(self, call_node) ==
  IF /\ call_node.func.kind = "Attribute"
     /\ call_node.func.value.kind = "Name"
     /\ call_node.func.value.id = "self"
     /\ call_node.func.attr = "set_state"
     /\ call_node.args # <<>>
  THEN <<"setState", "(">> \o _transpile_expression(self, call_node.args[1]) \o <<")", ";">>
  ELSE <<>>

_transpile_method_call(self, call_node) ==
  IF /\ call_node.func.kind = "Attribute"
     /\ call_node.func.value.kind = "Name"
     /\ call_node.func.value.id = "self"
     /\ call_node.func.attr = "set_state"
     /\ call_node.args # <<>>
  THEN <<"setState", "(", "prevState", " => ", "(", "{", "...", "prevState", ", ", "...">>
         \o _transpile_expression(self, call_node.args[1])
         \o <<"}", ")", ")", ";">>
  ELSE <<>>

\* variant: a single-target assignment is emitted
_transpile_assignment_Emit(self, assign_node) ==
  IF Len(assign_node.targets) = 1
  THEN _transpile_expression(self, assign_node.targets[1]) \o <<" = ">>
         \o _transpile_expression(self, assign_node.value) \o <<";">>
  ELSE <<>>

_transpile_assignment(self, assign_node) == <<>>

\* variant: a statement of another kind leaves a placeholder comment
_transpile_statement_KeepOther(self, stmt) ==
  IF stmt.kind = "Expr" THEN
    IF stmt.value.kind = "Call" THEN _transpile_method_call(self, stmt.value)
    ELSE <<>>
  ELSE IF stmt.kind = "Assign" THEN _transpile_assignment(self, stmt)
  ELSE IF stmt.kind = "Return"
  THEN <<"return ">> \o _transpile_expression(self, stmt.value) \o <<";">>
  ELSE <<"/* ", stmt.kind, " */">>

_transpile_statement(self, stmt) ==
  IF stmt.kind = "Expr" THEN
    IF stmt.value.kind = "Call" THEN _transpile_method_call(self, stmt.value)
    ELSE <<>>
  ELSE IF stmt.kind = "Assign" THEN _transpile_assignment(self, stmt)
  ELSE IF stmt.kind = "Return"
  THEN <<"return ">> \o _transpile_expression(self, stmt.value) \o <<";">>
  ELSE <<>>

NonEmpty(t) == t # <<>>

lifecycle_methods ==
  {"component_did_mount", "component_will_unmount", "should_component_update"}

\* the empty text stands for the None a skipped lifecycle method returns
\* js_lines of _transpile_method_to_js, joined, on the non-empty statement texts
MethodText(method_name, kept) ==
  Join(<<  <<"const ", method_name, " = () => {">>  >>
         \o [i \in 1..Len(kept) |-> <<"    ">> \o kept[i]]
         \o <<  <<"  };">>  >>,
       <<"\n">>)

_transpile_method_to_js(self, method_info) ==
  IF method_info.name \in lifecycle_methods THEN <<>>
  ELSE MethodText(method_info.name,
                  SelectSeq([i \in 1..Len(method_info.body) |->
                               _transpile_statement(self, method_info.body[i])],
                            NonEmpty))

\* ------------------------------------------------------- render method
\* returns the statement text (empty for None) and the instance afterwards
\* the tracking and the return value of _transpile_render_assignment
TrackLocal(self, var_name, value_js) ==
  [js |-> <<"const ", var_name, " = ">> \o value_js,
   self |-> [self EXCEPT !.local_variables =
               LocalVariables(DictSet(self.local_variables.d, var_name, value_js))]]

_transpile_render_assignment(self, assign_node) ==
  IF Len(assign_node.targets) = 1 /\ assign_node.targets[1].kind = "Name"
  THEN TrackLocal(self, assign_node.targets[1].id,
                  _transpile_expression(self, assign_node.value))
  ELSE [js |-> <<>>, self |-> self]

\* `if js_assign: js_statements.append(js_assign)` in _transpile_render_method
AppendAssign(before, a) ==
  [self |-> a.self,
   js_statements |-> IF a.js # <<>> THEN Append(before.js_statements, a.js)
                     ELSE before.js_statements,
   return_statement |-> before.return_statement]

\* one iteration of the loop of _transpile_render_method
RenderStep(before, stmt) ==
  IF stmt.kind = "Return" THEN [before EXCEPT !.return_statement = <<stmt>>]
  ELSE IF stmt.kind = "Assign"
  THEN AppendAssign(before, _transpile_render_assignment(before.self, stmt))
  ELSE before

RECURSIVE RenderLoop(_, _, _)
\* the loop of _transpile_render_method over the first n body statements
RenderLoop(self, render_body, n) ==
  IF n = 0 THEN [self |-> self, js_statements |-> <<>>, return_statement |-> <<>>]
  ELSE RenderStep(RenderLoop(self, render_body, n - 1), render_body[n])

\* variant: the return expression is wrapped whether or not a local was emitted
WrapReturn_Always(js_statements, return_expr) ==
  <<"(() => { ">> \o Join(js_statements, <<"; ">>) \o <<"; return ">>
    \o return_expr \o <<"; })()">>

\* the IIFE wrapping of _transpile_render_method on the return expression text
WrapReturn(js_statements, return_expr) ==
  IF js_statements # <<>>
  THEN <<"(() => { ">> \o Join(js_statements, <<"; ">>) \o <<"; return ">>
         \o return_expr \o <<"; })()">>
  ELSE return_expr

\* "Generate the return statement" of _transpile_render_method
RenderReturn(loop) ==
  [self |-> loop.self,
   js |-> IF loop.return_statement # <<>>
          THEN WrapReturn(loop.js_statements,
                          _transpile_element_expression(loop.self,
                                                        loop.return_statement[1].value))
          ELSE <<"null">>]

_transpile_render_method(self, render_method_info) ==
  RenderReturn(RenderLoop([self EXCEPT !.local_variables = LocalVariables(EmptyDict)],
                          render_method_info.body, Len(render_method_info.body)))

\* ------------------------------------------------------------ analyzer
_analyze_method(method_node) == [name |-> method_node.name, body |-> method_node.body]

RECURSIVE _ast_to_js_value(_)
_ast_to_js_value(node) ==
  IF node.kind = "Constant" THEN
    IF node.ctype = "str" THEN <<Q, node.value, Q>>
    ELSE IF node.ctype = "bool" THEN <<Lower(node.value)>>
    ELSE <<node.value>>
  ELSE IF node.kind = "List" THEN
    <<"[">> \o Join([i \in 1..Len(node.elts) |-> _ast_to_js_value(node.elts[i])], <<", ">>)
      \o <<"]">>
  ELSE IF node.kind = "Dict" THEN
    <<"{">> \o Join([i \in 1..Len(node.keys) |->
                       _ast_to_js_value(node.keys[i]) \o <<": ">>
                         \o _ast_to_js_value(node.values[i])], <<", ">>)
      \o <<"}">>
  ELSE <<"null">>

\* a Python value held in the initial-state dict: its type and its str()
PyValue(ctype, text) == [ctype |-> ctype, text |-> text]

RECURSIVE StateDictItems(_, _, _)
\* the key/value loop of _extract_initial_state over the first n items
StateDictItems(initial_state, dict_node, n) ==
  IF n = 0 THEN initial_state
  ELSE
    LET before == StateDictItems(initial_state, dict_node, n - 1)
        key == dict_node.keys[n]
        value == dict_node.values[n]
    IN IF key.kind = "Constant" THEN
         IF value.kind = "Constant"
         THEN DictSet(before, PyValue(key.ctype, <<key.value>>),
                      PyValue(value.ctype, <<value.value>>))
         ELSE DictSet(before, PyValue(key.ctype, <<key.value>>),
                      PyValue("str", _ast_to_js_value(value)))
       ELSE before

RECURSIVE StateTargets(_, _, _)
\* the target loop of _extract_initial_state over the first n targets of stmt
StateTargets(initial_state, stmt, n) ==
  IF n = 0 THEN initial_state
  ELSE
    LET before == StateTargets(initial_state, stmt, n - 1)
        target == stmt.targets[n]
    IN IF /\ target.kind = "Attribute"
          /\ target.value.kind = "Name"
          /\ target.value.id = "self"
          /\ target.attr = "state"
          /\ stmt.value.kind = "Dict"
       THEN StateDictItems(before, stmt.value, Len(stmt.value.keys))
       ELSE before

RECURSIVE StateStatements(_, _)
\* the statement loop of _extract_initial_state over the first n statements
StateStatements(body, n) ==
  IF n = 0 THEN EmptyDict
  ELSE
    LET before == StateStatements(body, n - 1)
    IN IF body[n].kind = "Assign"
       THEN StateTargets(before, body[n], Len(body[n].targets))
       ELSE before

_extract_initial_state(init_node) == StateStatements(init_node.body, Len(init_node.body))

RECURSIVE AnalyzeLoop(_, _)
\* the body loop of _analyze_component_class over the first n class members
AnalyzeLoop(class_def, n) ==
  IF n = 0
  THEN [name |-> class_def.name, methods |-> EmptyDict,
        render_method |-> <<>>, initial_state |-> EmptyDict]
  ELSE
    LET before == AnalyzeLoop(class_def, n - 1)
        node == class_def.body[n]
    IN IF node.kind = "FunctionDef" THEN
         LET method_info == _analyze_method(node)
             withMethod == [before EXCEPT !.methods = DictSet(@, node.name, method_info)]
         IN IF node.name = "__init__"
            THEN [withMethod EXCEPT !.initial_state = _extract_initial_state(node)]
            ELSE IF node.name = "render"
            THEN [withMethod EXCEPT !.render_method = <<method_info>>]
            ELSE withMethod
       ELSE before

_analyze_component_class(class_def) == AnalyzeLoop(class_def, Len(class_def.body))

\* -------------------------------------------------------------- emitter
_dict_to_js_object(python_dict) ==
  IF python_dict = EmptyDict THEN <<"{}">>
  ELSE
    LET pairs == [i \in 1..Len(python_dict) |->
                    LET key == python_dict[i].k
                        value == python_dict[i].v
                    IN IF value.ctype = "str"
                       THEN key.text \o <<": ", Q>> \o value.text \o <<Q>>
                       ELSE IF value.ctype = "bool"
                       THEN key.text \o <<": ", Lower(value.text[1])>>
                       ELSE key.text \o <<": ">> \o value.text]
    IN <<"{">> \o Join(pairs, <<", ">>) \o <<"}">>

\* `if method_js:` and the two appends in the method loop of _generate_js_component
AppendMethod(before, method_js) ==
  IF method_js # <<>> THEN before \o << <<"  ">> \o method_js, <<>> >> ELSE before

RECURSIVE MethodLines(_, _, _)
\* the js_lines contributed by the first n entries of component_info['methods']
MethodLines(self, methods, n) ==
  IF n = 0 THEN <<>>
  ELSE AppendMethod(MethodLines(self, methods, n - 1),
                    IF methods[n].k \notin {"__init__", "render"}
                    THEN _transpile_method_to_js(self, methods[n].v)
                    ELSE <<>>)

\* variant: the state hook is declared for every component
HookLines_Always(initial_state) ==
  << <<"  ", "const [state, setState] = React.useState", "(">>
       \o _dict_to_js_object(initial_state) \o <<")", ";">>,
     <<>> >>

\* "Add state hook if there's initial state" in _generate_js_component
HookLines(initial_state) ==
  IF initial_state # EmptyDict
  THEN << <<"  ", "const [state, setState] = React.useState", "(">>
            \o _dict_to_js_object(initial_state) \o <<")", ";">>,
          <<>> >>
  ELSE <<>>

\* variant: a component without a render method gets no return line
ComponentText_NoFallback(component_info, hook_lines, method_lines, render) ==
  [self |-> render.self,
   js |-> Join(<< <<"function ", component_info.name, "(props) {">> >>
                 \o hook_lines \o method_lines
                 \o (IF component_info.render_method # <<>>
                      THEN << <<"  return ">> \o render.js \o <<";">> >>
                      ELSE <<>>)
                 \o << <<"}">> >>,
               <<"\n">>)]

\* js_lines of _generate_js_component, joined; render is the outcome of the
\* render method's transpilation when there is one
ComponentText(component_info, hook_lines, method_lines, render) ==
  [self |-> render.self,
   js |-> Join(<< <<"function ", component_info.name, "(props) {">> >>
                 \o hook_lines \o method_lines
                 \o << IF component_info.render_method # <<>>
                       THEN <<"  return ">> \o render.js \o <<";">>
                       ELSE <<"  return null;">>,
                       <<"}">> >>,
               <<"\n">>)]

\* returns the component text and the instance afterwards
_generate_js_component(self, component_info) ==
  ComponentText(component_info,
                HookLines(component_info.initial_state),
                MethodLines(self, component_info.methods, Len(component_info.methods)),
                IF component_info.render_method # <<>>
                THEN _transpile_render_method(self, component_info.render_method[1])
                ELSE [self |-> self, js |-> <<>>])

generate_complete_js(self) ==
  IF self.components = EmptyDict THEN <<"// No components to transpile">>
  ELSE
    LET js_parts == << <<"// PyReact - Transpiled Components">>, <<>> >>
                    \o [i \in 1..(2 * Len(self.components)) |->
                          IF i % 2 = 1 THEN self.components[(i + 1) \div 2].v ELSE <<>>]
    IN Join(js_parts, <<"\n">>)

\* ---------------------------------------------------- transpile_component
RECURSIVE Walk(_)
\* ast.walk restricted to class nodes: breadth first, a level at a time
Walk(level) ==
  IF level = <<>> THEN <<>>
  ELSE
    LET classes == SelectSeq(level, LAMBDA n : n.kind = "ClassDef")
        nested(c) == SelectSeq(c.body, LAMBDA n : n.kind = "ClassDef")
    IN classes \o Walk(Join([i \in 1..Len(classes) |-> nested(classes[i])], <<>>))

\* the first class node of the walk with the expected name, as a 0/1 sequence
FindClassDef(component_class) ==
  LET hits == SelectSeq(Walk(component_class.tree),
                        LAMBDA n : n.name = component_class.name)
  IN IF hits = <<>> THEN <<>> ELSE <<hits[1]>>

\* "Store the component for later use" and the return of transpile_component
StoreComponent(name, gen) ==
  [raised |-> FALSE, js |-> gen.js,
   self |-> [gen.self EXCEPT !.components = DictSet(@, name, gen.js)]]

\* the rest of transpile_component once the class node is looked up
TranspileFound(self, name, class_def) ==
  IF class_def = <<>>
  THEN [raised |-> TRUE, js |-> <<>>, self |-> self]
  ELSE StoreComponent(name,
                      _generate_js_component(self, _analyze_component_class(class_def[1])))

\* variant: the registry slot is reserved before the class node is looked up
transpile_component_EarlyStore(self, component_class) ==
  TranspileFound([self EXCEPT !.components = DictSet(@, component_class.name, <<>>)],
                 component_class.name, FindClassDef(component_class))

\* the outcome of one call: raised or not, the value returned, the instance after
transpile_component(self, component_class) ==
  TranspileFound(self, component_class.name, FindClassDef(component_class))

\* ======================================================================
\* The transpiler instance as a state machine
\* ======================================================================
VARIABLES
  components,        \* self.components : name -> emitted text, insertion-ordered
  local_variables,   \* self.local_variables, absent until the first render
  result,            \* the outcome of the last public call
  first_js,          \* history: class -> text returned by its first transpile
  order,             \* history: names in the order of their first transpile
  last_js,           \* history: name -> text returned by its latest transpile
  node,              \* input of a single transpiler function
  fn,                \* the transpiler function applied to node
  out                \* its output

vars == <<components, local_variables, result, first_js, order, last_js, node, fn, out>>

self_now == Instance(components, local_variables)

\* ------------------------------------------------------ component classes
\* A component class is its __name__ and the module tree its source parses to.
ComponentClass(name, tree) == [name |-> name, tree |-> tree]

Method(name, body) == FunctionDef(name, body)

InitState(keys, values) ==
  Method("__init__", << Assign(<<SelfState>>, Dict(keys, values)) >>)

SetState(arg) == Expr(Call(Attribute(Self, "set_state"), <<arg>>, <<>>))

StateAt(key) == Subscript(SelfState, Str(key))

Builder(tag, args, keywords) == Call(Name(tag), args, keywords)

\* examples Counter and Greeting of src/example.py
CounterDef ==
  ClassDef("Counter",
    << InitState(<<Str("count")>>, <<Num("0")>>),
       Method("increment",
         << SetState(Dict(<<Str("count")>>, <<BinOp(StateAt("count"), "Add", Num("1"))>>)) >>),
       Method("render",
         << Return(Builder("div",
              << Builder("h1", << JoinedStr(<<Str("Count: "), FormattedValue(StateAt("count"))>>) >>, <<>>),
                 Builder("button", <<Str("Increment")>>,
                         <<keyword("onclick", Attribute(Self, "increment"))>>) >>,
              <<>>)) >>) >>)

GreetingDef ==
  ClassDef("Greeting",
    << InitState(<<Str("name")>>, <<Str("World")>>),
       Method("update_name", << SetState(Dict(<<Str("name")>>, <<Str("PyReact User")>>)) >>),
       Method("render",
         << Assign(<<Name("name")>>,
                   Call(Attribute(SelfProps, "get"), <<Str("name"), StateAt("name")>>, <<>>)),
            Return(Builder("div",
              << Builder("h2", << JoinedStr(<<Str("Hello, "), FormattedValue(Name("name")), Str("!")>>) >>, <<>>),
                 Builder("button", <<Str("Change Name")>>,
                         <<keyword("onclick", Attribute(Self, "update_name"))>>) >>,
              <<>>)) >>) >>)

\* a second class whose __name__ is also Counter
CounterAltDef ==
  ClassDef("Counter",
    << Method("reset", << SetState(Dict(<<Str("count")>>, <<Num("0")>>)) >>),
       Method("render", << Return(Builder("p", <<Str("alt")>>, <<>>)) >>) >>)

\* no render method; its handler interpolates a bare name that Greeting's
\* render binds locally
BannerDef ==
  ClassDef("Banner",
    << Method("describe",
         << Return(JoinedStr(<<Str("Banner for "), FormattedValue(Name("name"))>>)) >>),
       Method("component_did_mount", << Pass >>) >>)

\* a class nested in another class body
AppDef ==
  ClassDef("App",
    << ClassDef("Inner", << Method("render", << Return(Builder("span", <<>>, <<>>)) >>) >>),
       Method("render",
         << Assign(<<Name("title")>>, Str("App")),
            Return(Builder("h1", << JoinedStr(<<FormattedValue(Name("title"))>>) >>, <<>>)) >>) >>)

Classes ==
  << ComponentClass("Greeting", <<GreetingDef>>),
     ComponentClass("Counter", <<CounterDef>>),
     ComponentClass("Counter", <<CounterAltDef>>),
     ComponentClass("Banner", <<BannerDef>>),
     \* App with __name__ reassigned to Inner: the walk over App's source
     \* finds the class Inner nested in its body
     ComponentClass("Inner", <<AppDef>>),
     \* __name__ was reassigned after definition: the source still says Banner
     ComponentClass("Ghost", <<BannerDef>>) >>

ClassIds == 1..Len(Classes)

NoResult == [op |-> "none", cls |-> 0, raised |-> FALSE, js |-> <<>>]

Init ==
  /\ components = EmptyDict
  /\ local_variables = NoLocalVariables
  /\ result = NoResult
  /\ first_js = EmptyDict
  /\ order = <<>>
  /\ last_js = EmptyDict
  /\ node = NoneNode
  /\ fn = "none"
  /\ out = <<>>

\* transpile_component(cls) returns normally
TranspileComponent ==
  \E c \in ClassIds :
    \E r \in {transpile_component(self_now, Classes[c])} :
       /\ ~r.raised
       /\ components' = r.self.components
       /\ local_variables' = r.self.local_variables
       /\ result' = [op |-> "transpile_component", cls |-> c, raised |-> FALSE, js |-> r.js]
       /\ first_js' = IF DictHas(first_js, c) THEN first_js ELSE DictSet(first_js, c, r.js)
       /\ order' = IF \E i \in 1..Len(order) : order[i] = Classes[c].name
                   THEN order ELSE Append(order, Classes[c].name)
       /\ last_js' = DictSet(last_js, Classes[c].name, r.js)
       /\ UNCHANGED <<node, fn, out>>

\* transpile_component(cls) raises ValueError
TranspileComponentRaises ==
  \E c \in ClassIds :
    \E r \in {transpile_component(self_now, Classes[c])} :
       /\ r.raised
       /\ components' = r.self.components
       /\ local_variables' = r.self.local_variables
       /\ result' = [op |-> "transpile_component", cls |-> c, raised |-> TRUE, js |-> <<>>]
       /\ UNCHANGED <<first_js, order, last_js, node, fn, out>>

GenerateCompleteJs ==
  /\ result' = [op |-> "generate_complete_js", cls |-> 0, raised |-> FALSE,
                js |-> generate_complete_js(self_now)]
  /\ UNCHANGED <<components, local_variables, first_js, order, last_js, node, fn, out>>

Next == TranspileComponent \/ TranspileComponentRaises \/ GenerateCompleteJs

Spec == Init /\ [][Next]_vars

\* ======================================================================
\* Properties of the instance
\* ======================================================================
FreshInstance == Instance(EmptyDict, NoLocalVariables)

\* C1: a component class transpiles to the same text on every call, whatever
\* calls came before: the text returned equals the text its first call
\* returned, and equals what a new transpiler instance returns for it.
C1_Determinism ==
  (result.op = "transpile_component" /\ ~result.raised) =>
     /\ result.js = DictGet(first_js, result.cls)
     /\ result.js = transpile_component(FreshInstance, Classes[result.cls]).js

\* Banner (handler interpolating the bare name `name`, no render method) was
\* just transpiled while the instance still holds Greeting's binding of `name`
C1_Witness ==
  /\ result.op = "transpile_component"
  /\ ~result.raised
  /\ Classes[result.cls].name = "Banner"
  /\ local_variables.has
  /\ DictHas(local_variables.d, "name")
  /\ DictHas(components, "Greeting")

RECURSIVE FunctionsInOrder(_, _)
\* the emitted functions of names[1..n], each preceded by a blank line
FunctionsInOrder(names, n) ==
  IF n = 0 THEN <<>>
  ELSE FunctionsInOrder(names, n - 1) \o <<"\n">> \o DictGet(last_js, names[n]) \o <<"\n">>

CountToken(t, tok) == Cardinality({i \in 1..Len(t) : t[i] = tok})

\* C2: after at least one successful transpile, generate_complete_js returns
\* the header comment followed by one function per distinct component name,
\* in the order in which the names were first transpiled.
C2_OrderPreservation ==
  (result.op = "generate_complete_js" /\ order # <<>>) =>
     /\ result.js = <<"// PyReact - Transpiled Components", "\n">>
                      \o FunctionsInOrder(order, Len(order))
     /\ CountToken(result.js, "function ") = Len(order)
     /\ \A i \in 1..Len(order) :
          SubSeq(DictGet(last_js, order[i]), 1, 2) = <<"function ", order[i]>>

\* Greeting was transpiled before Counter and Banner, and the name Counter
\* was transpiled from both of its classes
C2_Witness ==
  /\ result.op = "generate_complete_js"
  /\ order = <<"Greeting", "Counter", "Banner">>
  /\ DictHas(first_js, 2)
  /\ DictHas(first_js, 3)

\* C3: a transpile_component call that raises because the class node is not
\* found leaves the registry as it was (names, order, texts), with no entry
\* for the failed name, so generate_complete_js returns what it returned before.
C3_FailedLookupKeepsRegistry ==
  [][(result'.op = "transpile_component" /\ result'.raised) =>
       /\ components' = components
       /\ ~DictHas(components', Classes[result'.cls].name)
       /\ generate_complete_js(Instance(components', local_variables'))
            = generate_complete_js(Instance(components, local_variables))]_vars

\* a lookup just failed on an instance that holds two components
C3_Witness ==
  /\ result.op = "transpile_component"
  /\ result.raised
  /\ Len(components) >= 2

\* ======================================================================
\* The transpiler functions applied to single inputs
\* ======================================================================
MaxArgs == 2        \* positional arguments of a generated call
MaxKeywords == 2    \* keyword arguments of a generated builder call
MaxBody == 2        \* statements of a generated method body

SeqsUpTo(S, n) == UNION {[1..k -> S] : k \in 0..n}

PropsGet(args) == Call(Attribute(SelfProps, "get"), args, <<>>)

SelfAttrs == {Attribute(b, a) : b \in {Self, Name("x")}, a \in {"state", "props", "m"}}

DeepAttrs == {Attribute(b, a) : b \in SelfAttrs, a \in {"title", "state", "props"}}

Subscripts ==
  {Subscript(v, k) :
     v \in {SelfState, SelfProps, Name("x"), Attribute(Name("x"), "state"),
            Attribute(SelfProps, "state")},
     k \in {Str("name"), Num("0"), Name("x")}}
  \cup {Attribute(StateAt("name"), "title"), Attribute(Subscript(SelfProps, Str("name")), "title")}

Operands ==
  {Str("name"), Num("1"), Name("x"), StateAt("count"), SelfProps, SelfState,
   Subscript(SelfProps, Str("n"))}

BinOps ==
  {BinOp(l, op, r) : l \in Operands, op \in {"Add", "Sub", "Mult", "Div", "Mod"},
                     r \in Operands}
  \cup {BinOp(BinOp(Name("x"), "Add", Num("1")), "Mult", StateAt("count")),
        BinOp(Num("2"), "Mod", BinOp(StateAt("count"), "Sub", Name("x")))}

CallArgs ==
  {Str("name"), Name("x"), Num("1"), StateAt("name"), BinOp(Str("a"), "Add", Str("b"))}

Callees ==
  {Name("helper"), Attribute(SelfProps, "get"), Attribute(SelfProps, "keys"),
   Attribute(SelfState, "get"), Attribute(Attribute(Name("x"), "props"), "get"),
   Attribute(Self, "get"), Attribute(Attribute(SelfProps, "user"), "get"),
   Call(Name("factory"), <<>>, <<>>)}

Calls ==
  {Call(f, a, <<>>) : f \in Callees, a \in SeqsUpTo(CallArgs, MaxArgs)}
  \cup {Call(Attribute(SelfProps, "get"), <<Str("name")>>, <<keyword("default", Num("1"))>>)}

FStrings ==
  {JoinedStr(<<Str("Hello, "), FormattedValue(e), Str("!")>>) :
     e \in {Name("name"), Name("x"), StateAt("count"), SelfProps,
            Attribute(SelfProps, "title"), PropsGet(<<Str("name"), Str("anon")>>)}}

Dicts ==
  {Dict(<<Str("count")>>, <<v>>) : v \in Operands \cup {BinOp(StateAt("count"), "Add", Num("1"))}}
  \cup {Dict(<<>>, <<>>), Dict(<<Str("a"), Str("b")>>, <<Num("1"), SelfProps>>)}

OtherExprs == {List(<<Num("1")>>), Compare(Name("x"), Num("1")), NoneNode}

Children ==
  {Str("x"), Name("x"), StateAt("count"),
   Builder("h1", <<Str("x")>>, <<>>),
   Builder("button", <<Str("y")>>, <<keyword("onclick", Name("handler"))>>),
   Call(Name("helper"), <<Num("1")>>, <<>>),
   PropsGet(<<Str("name"), Str("anon")>>)}

Keywords ==
  {keyword(k, v) :
     k \in {"onclick", "onchange", "onsubmit", "onClick", "id"},
     v \in {Attribute(Self, "m"), Name("handler"), Str("v"), Attribute(SelfProps, "title")}}

ElementCalls ==
  {Builder(t, c, <<>>) : t \in {"div", "input_field"}, c \in SeqsUpTo(Children, MaxArgs)}
  \cup {Builder(t, c, k) : t \in {"button", "input_field"}, c \in {<<>>, <<Str("y")>>},
                           k \in SeqsUpTo(Keywords, MaxKeywords)}
  \cup {Builder("div", << Builder("h1", <<Str("x")>>, <<>>),
                          Builder("button", <<Str("y")>>, <<keyword("onclick", Name("handler"))>>) >>,
                <<keyword("id", Str("v"))>>),
        Call(Name("Widget"), <<Str("x")>>, <<keyword("onclick", Attribute(Self, "m"))>>)}

ExprInputs ==
  {Self, Name("x"), Str("name"), Num("0"), Bool("True")}
  \cup SelfAttrs \cup DeepAttrs \cup Subscripts \cup BinOps \cup Calls \cup FStrings
  \cup Dicts \cup OtherExprs \cup ElementCalls

SetStateArgs ==
  {Dict(<<Str("count")>>, <<Num("0")>>),
   Dict(<<Str("count")>>, <<BinOp(StateAt("count"), "Add", Num("1"))>>),
   Name("new_state"), Str("name")}

SetStateCalls ==
  {Call(f, a, <<>>) :
     f \in {Attribute(Self, "set_state"), Attribute(Name("x"), "set_state"),
            Attribute(SelfState, "set_state"), Attribute(Self, "update"), Name("set_state")},
     a \in SeqsUpTo(SetStateArgs, MaxArgs)}
  \cup {Call(Attribute(Self, "set_state"), <<>>, <<keyword("count", Num("0"))>>)}

StmtInputs ==
  {Expr(c) : c \in SetStateCalls}
  \cup {Expr(Name("x")), Expr(Str("doc")), Expr(Call(Name("helper"), <<Num("1")>>, <<>>)),
        Expr(PropsGet(<<Str("name"), Str("anon")>>)),
        Assign(<<Name("x")>>, Num("1")), Assign(<<SelfState>>, Dict(<<Str("count")>>, <<Num("0")>>)),
        Assign(<<Subscript(SelfState, Str("count"))>>, Num("1")),
        Return(StateAt("count")), Return(NoneNode), Return(Compare(Name("x"), Num("1"))),
        Pass, AugAssign(StateAt("count"), "Add", Num("1"))}

BodyStmts ==
  {SetState(Dict(<<Str("count")>>, <<Num("0")>>)), SetState(Name("new_state")),
   Expr(Call(Attribute(Self, "set_state"), <<>>, <<>>)),
   Expr(Call(Name("helper"), <<Num("1")>>, <<>>)),
   Assign(<<Name("x")>>, Num("1")), Return(StateAt("count")), Pass}

MethodInputs ==
  {Method(n, b) : n \in {"increment", "component_did_mount"}, b \in SeqsUpTo(BodyStmts, MaxBody)}

RenderStmts ==
  {Assign(<<Name("name")>>, PropsGet(<<Str("name"), StateAt("name")>>)),
   Assign(<<Name("x"), Name("y")>>, Num("1")),
   Assign(<<Name("greeting")>>, JoinedStr(<<Str("Hi "), FormattedValue(Name("name"))>>)),
   Return(Builder("h2", <<JoinedStr(<<Str("Hello, "), FormattedValue(Name("name"))>>)>>, <<>>)),
   Return(PropsGet(<<Str("name"), Str("anon")>>)),
   Return(Call(Name("helper"), <<Num("1")>>, <<>>)),
   Return(Name("name")),
   Expr(Call(Name("helper"), <<Num("1")>>, <<>>))}

RenderInputs == {Method("render", b) : b \in SeqsUpTo(RenderStmts, MaxBody)}

LvInputs ==
  {NoLocalVariables, LocalVariables(EmptyDict),
   LocalVariables(<<[k |-> "name", v |-> <<"stale">>], [k |-> "x", v |-> <<"1">>]>>)}

ExprKinds ==
  {"Name", "Constant", "Attribute", "Subscript", "BinOp", "Call", "Dict", "List",
   "JoinedStr", "Compare", "None"}

StmtKinds == {"Expr", "Assign", "Return", "Pass", "AugAssign"}

\* the constructor of a generated class: none, or one that assigns self.state
InitInputs ==
  {<<>>,
   <<InitState(<<>>, <<>>)>>,
   <<InitState(<<Str("count")>>, <<Num("0")>>)>>,
   <<InitState(<<Str("name"), Str("on"), Str("count")>>,
               <<Str("World"), Bool("True"), Num("0")>>)>>,
   <<InitState(<<Str("items"), Str("count")>>, <<List(<<>>), Num("0")>>)>>,
   <<InitState(<<Str("items"), Str("user")>>,
               <<List(<<Num("1"), Str("a")>>), Dict(<<Str("n")>>, <<Num("1")>>)>>)>>,
   <<InitState(<<Name("key"), Str("count")>>, <<Num("1"), Num("0")>>)>>,
   <<Method("__init__", <<Assign(<<SelfState>>, Call(Name("make"), <<>>, <<>>))>>)>>,
   <<Method("__init__", <<Assign(<<Attribute(Self, "count")>>, Num("0"))>>)>>}

\* its handler: none, one that updates or reads the state, one made of
\* statement and expression kinds without a branch, a lifecycle method
HandlerInputs ==
  {<<>>,
   <<Method("increment",
            <<SetState(Dict(<<Str("count")>>, <<BinOp(StateAt("count"), "Add", Num("1"))>>))>>)>>,
   <<Method("show", <<Return(StateAt("count"))>>)>>,
   <<Method("odd", <<Pass, AugAssign(StateAt("count"), "Add", Num("1")),
                     Return(Compare(Name("x"), Num("1")))>>)>>,
   <<Method("component_did_mount", <<Pass>>)>>}

\* its render method: none, or one of these bodies
RenderBodies ==
  {<<Return(Builder("p", <<Str("hi")>>, <<>>))>>,
   <<Return(Builder("p", <<StateAt("count")>>, <<>>))>>,
   <<Return(Compare(Name("x"), Num("1")))>>,
   <<Assign(<<Name("name")>>, PropsGet(<<Str("name"), Str("anon")>>)),
     Return(Builder("h2", <<JoinedStr(<<Str("Hello, "), FormattedValue(Name("name"))>>)>>, <<>>))>>}

ClassRenders == {<<>>} \cup {<<Method("render", b)>> : b \in RenderBodies}

\* a class body may hold members that are not methods
ClassExtras == {<<>>, <<Assign(<<Name("x")>>, Num("1"))>>}

ClassInputs ==
  {ClassDef("Widget", i \o h \o r \o x) :
     i \in InitInputs, h \in HandlerInputs, r \in ClassRenders, x \in ClassExtras}

FnInit ==
  /\ components = EmptyDict
  /\ local_variables \in LvInputs
  /\ result = NoResult
  /\ first_js = EmptyDict
  /\ order = <<>>
  /\ last_js = EmptyDict
  /\ node \in ExprInputs \cup StmtInputs \cup MethodInputs \cup RenderInputs \cup ClassInputs
  /\ fn = "input"
  /\ out = <<>>

ApplyTranspileExpression ==
  /\ fn = "input"
  /\ node.kind \in ExprKinds
  /\ fn' = "_transpile_expression"
  /\ out' = _transpile_expression(self_now, node)
  /\ UNCHANGED <<components, local_variables, result, first_js, order, last_js, node>>

ApplyTranspileElementExpression ==
  /\ fn = "input"
  /\ node.kind \in ExprKinds
  /\ fn' = "_transpile_element_expression"
  /\ out' = _transpile_element_expression(self_now, node)
  /\ UNCHANGED <<components, local_variables, result, first_js, order, last_js, node>>

ApplyTranspileStatement ==
  /\ fn = "input"
  /\ node.kind \in StmtKinds
  /\ fn' = "_transpile_statement"
  /\ out' = _transpile_statement(self_now, node)
  /\ UNCHANGED <<components, local_variables, result, first_js, order, last_js, node>>

ApplyTranspileMethodToJs ==
  /\ fn = "input"
  /\ node.kind = "FunctionDef"
  /\ node.name # "render"
  /\ fn' = "_transpile_method_to_js"
  /\ out' = _transpile_method_to_js(self_now, _analyze_method(node))
  /\ UNCHANGED <<components, local_variables, result, first_js, order, last_js, node>>

ApplyTranspileRenderMethod ==
  /\ fn = "input"
  /\ node.kind = "FunctionDef"
  /\ node.name = "render"
  /\ \E r \in {_transpile_render_method(self_now, _analyze_method(node))} :
        /\ out' = r.js
        /\ local_variables' = r.self.local_variables
  /\ fn' = "_transpile_render_method"
  /\ UNCHANGED <<components, result, first_js, order, last_js, node>>

\* transpile_component on a class whose source is the class definition `node`;
\* its __name__ is the defined name, or another one assigned afterwards
ApplyTranspileComponent ==
  /\ fn = "input"
  /\ node.kind = "ClassDef"
  /\ \E name \in {node.name, "Ghost"} :
       \E r \in {transpile_component(self_now, ComponentClass(name, <<node>>))} :
          /\ result' = [op |-> "transpile_component", cls |-> 0, name |-> name,
                        raised |-> r.raised, js |-> r.js]
          /\ components' = r.self.components
          /\ local_variables' = r.self.local_variables
          /\ out' = r.js
  /\ fn' = "transpile_component"
  /\ UNCHANGED <<first_js, order, last_js, node>>

FnNext ==
  \/ ApplyTranspileComponent
  \/ ApplyTranspileExpression
  \/ ApplyTranspileElementExpression
  \/ ApplyTranspileStatement
  \/ ApplyTranspileMethodToJs
  \/ ApplyTranspileRenderMethod

FnSpec == FnInit /\ [][FnNext]_vars

\* ======================================================================
\* Properties of the transpiler functions
\* ======================================================================
IsSlot(e) ==
  /\ e.kind = "Attribute"
  /\ e.value.kind = "Name"
  /\ e.value.id = "self"
  /\ e.attr \in {"state", "props"}

IsSubText(t, s) == \E i \in 0..(Len(t) - Len(s)) : SubSeq(t, i + 1, i + Len(s)) = s

\* C4: self.state transpiles to `state` and self.props to `props`, standalone
\* or as the target of an attribute access, subscript or method call; the
\* output for such an access does not contain `self`.
C4_SlotsElideSelf ==
  fn = "_transpile_expression" =>
    /\ IsSlot(node) => out = <<node.attr>>
    /\ (node.kind = "Attribute" /\ IsSlot(node.value)) =>
         out = <<node.value.attr, ".", node.attr>>
    /\ (node.kind = "Subscript" /\ IsSlot(node.value)) => ~Contains(out, "self")
    /\ (node.kind = "Call" /\ node.func.kind = "Attribute" /\ IsSlot(node.func.value)) =>
         ~Contains(out, "self")

IsSetStateCall(c) ==
  /\ c.kind = "Call"
  /\ c.func.kind = "Attribute"
  /\ c.func.value.kind = "Name"
  /\ c.func.value.id = "self"
  /\ c.func.attr = "set_state"

\* self.set_state(<one mapping literal>) as an expression statement
IsMergeStmt(s) ==
  /\ s.kind = "Expr"
  /\ IsSetStateCall(s.value)
  /\ Len(s.value.args) = 1
  /\ s.value.args[1].kind = "Dict"

MergeForm(m) ==
  <<"setState", "(", "prevState", " => ", "(", "{", "...", "prevState", ", ", "...">>
    \o m \o <<"}", ")", ")", ";">>

\* C5: in a handler body, self.set_state(<mapping literal>) transpiles to the
\* merge form: the previous state is spread first, then the transpiled mapping.
C5_SetStateMerges ==
  /\ (fn = "_transpile_statement" /\ IsMergeStmt(node)) =>
       LET m == _transpile_expression(self_now, node.value.args[1])
       IN /\ out = MergeForm(m)
          /\ m[1] = "{"
          /\ m[Len(m)] = "}"
  /\ (fn = "_transpile_method_to_js" /\ node.name \notin lifecycle_methods) =>
       \A i \in 1..Len(node.body) :
          IsMergeStmt(node.body[i]) =>
            IsSubText(out, <<"\n", "    ">>
                             \o MergeForm(_transpile_expression(self_now, node.body[i].value.args[1])))

C5_Witness ==
  /\ fn = "_transpile_statement"
  /\ node = SetState(Dict(<<Str("count")>>, <<BinOp(StateAt("count"), "Add", Num("1"))>>))
  /\ out = MergeForm(<<"{", Q, "count", Q, ": ", "state", ".", "count", " + ", "1", "}">>)

\* C6 as stated: every assignment, and every expression statement other than
\* self.set_state(<one mapping literal>), transpiles to nothing.
C6_AllOthersDropped ==
  (fn = "_transpile_statement"
     /\ (node.kind = "Assign" \/ (node.kind = "Expr" /\ ~IsMergeStmt(node)))) =>
    out = <<>>

\* an expression statement that the statement transpiler emits
EmitsSetState(s) ==
  /\ s.kind = "Expr"
  /\ IsSetStateCall(s.value)
  /\ s.value.args # <<>>

\* C6 amended: every assignment, and every expression statement other than a
\* self.set_state call with at least one positional argument, is dropped and
\* adds no line to the handler; a self.set_state call with a positional
\* argument is emitted in the merge form of its first argument, mapping
\* literal or not.
C6_DroppedUnlessSetStateWithArg ==
  /\ (fn = "_transpile_statement"
        /\ (node.kind = "Assign" \/ (node.kind = "Expr" /\ ~EmitsSetState(node)))) =>
       out = <<>>
  /\ (fn = "_transpile_statement" /\ EmitsSetState(node)) =>
       out = MergeForm(_transpile_expression(self_now, node.value.args[1]))
  /\ (fn = "_transpile_method_to_js" /\ node.name \notin lifecycle_methods) =>
       CountToken(out, "\n")
         = 1 + Cardinality({i \in 1..Len(node.body) :
                              node.body[i].kind = "Return" \/ EmitsSetState(node.body[i])})

\* a handler whose body is an assignment and a call of another function
C6_Witness ==
  /\ fn = "_transpile_method_to_js"
  /\ node = Method("increment",
                   << Assign(<<Name("x")>>, Num("1")),
                      Expr(Call(Name("helper"), <<Num("1")>>, <<>>)) >>)
  /\ out = <<"const ", "increment", " = () => {", "\n", "  };">>

\* C7: self.props.get(key, default) gives (props.<key> || <default>) exactly
\* when it has two arguments and a string-literal key; any other call on an
\* attribute gives <object>.<method>(<args>), a call on a name <name>(<args>).
C7_PropsGetFallback ==
  (fn = "_transpile_expression" /\ node.kind = "Call"
     /\ node.func.kind \in {"Name", "Attribute"}) =>
    LET args == [i \in 1..Len(node.args) |-> _transpile_expression(self_now, node.args[i])]
    IN IF /\ node.func.kind = "Attribute"
          /\ node.func.value = SelfProps
          /\ node.func.attr = "get"
          /\ Len(node.args) = 2
          /\ node.args[1].kind = "Constant"
          /\ node.args[1].ctype = "str"
       THEN out = <<"(", "props", ".", node.args[1].value, " || ">> \o args[2] \o <<")">>
       ELSE IF node.func.kind = "Attribute"
       THEN out = _transpile_expression(self_now, node.func.value)
                    \o <<".", node.func.attr, "(">> \o Join(args, <<", ">>) \o <<")">>
       ELSE out = <<node.func.id, "(">> \o Join(args, <<", ">>) \o <<")">>

IsBuilderCall(c) ==
  /\ c.kind = "Call"
  /\ c.func.kind = "Name"
  /\ c.func.id \in html_elements

\* C8: in element position a call that is not a builder call transpiles to
\* what the expression transpiler's call rule gives for it.
C8_NonElementCallFallsThrough ==
  /\ (fn = "_transpile_element_expression" /\ node.kind = "Call" /\ ~IsBuilderCall(node)) =>
       out = _transpile_expression(self_now, node)
  /\ (fn = "_transpile_render_method" /\ Len(node.body) = 1
        /\ node.body[1].kind = "Return" /\ node.body[1].value.kind = "Call"
        /\ ~IsBuilderCall(node.body[1].value)) =>
       out = _transpile_expression(self_now, node.body[1].value)

C9_Rename(k) ==
  IF k = "onclick" THEN "onClick"
  ELSE IF k = "onchange" THEN "onChange"
  ELSE IF k = "onsubmit" THEN "onSubmit"
  ELSE k

C9_Value(self, v) ==
  IF v.kind = "Attribute" /\ v.value = Self THEN <<v.attr>>
  ELSE _transpile_expression(self, v)

\* positions of the keywords whose renamed key has not occurred before
C9_Firsts(kws) ==
  SelectSeq([i \in 1..Len(kws) |-> i],
            LAMBDA i : \A j \in 1..(i - 1) : C9_Rename(kws[j].arg) # C9_Rename(kws[i].arg))

\* position of the last keyword with the same renamed key as keyword i
C9_Last(kws, i) ==
  CHOOSE j \in 1..Len(kws) :
    /\ C9_Rename(kws[j].arg) = C9_Rename(kws[i].arg)
    /\ \A l \in (j + 1)..Len(kws) : C9_Rename(kws[l].arg) # C9_Rename(kws[i].arg)

C9_PropsText(self, kws) ==
  LET firsts == C9_Firsts(kws)
  IN <<"{">>
       \o Join([n \in 1..Len(firsts) |->
                  <<C9_Rename(kws[firsts[n]].arg), ": ">>
                    \o C9_Value(self, kws[C9_Last(kws, firsts[n])].value)],
               <<", ">>)
       \o <<"}">>

\* C9: the keyword arguments of a builder call become its property object in
\* the order given, with onclick/onchange/onsubmit renamed to onClick/onChange/
\* onSubmit and other keys unchanged; a value self.m is the bare name m, any
\* other value is what the expression transpiler gives.  (Keywords that are
\* renamed to the same key share one entry, at the first one's position.)
C9_KeywordsBecomeProps ==
  (fn = "_transpile_element_expression" /\ IsBuilderCall(node) /\ node.keywords # <<>>) =>
    LET p == C9_PropsText(self_now, node.keywords)
    IN /\ SubSeq(out, 6, 5 + Len(p)) = p
       /\ out[6 + Len(p)] \in {")", ", "}

C9_Witness ==
  /\ fn = "_transpile_element_expression"
  /\ node = Builder("button", <<Str("y")>>,
                    <<keyword("onsubmit", Attribute(Self, "m")), keyword("id", Str("v"))>>)
  /\ IsSubText(out, <<"{", "onSubmit", ": ", "m", ", ", "id", ": ", Q, "v", Q, "}">>)

C10_Tag(name) == IF name = "input_field" THEN "input" ELSE name

C10_Child(self, a) ==
  IF a.kind = "Constant" /\ a.ctype = "str" THEN <<Q, a.value, Q>>
  ELSE IF IsBuilderCall(a) THEN _transpile_element_call(self, a)
  ELSE _transpile_element_expression(self, a)

C10_Example ==
  Builder("div",
          << Builder("h1", <<Str("x")>>, <<>>),
             Builder("button", <<Str("y")>>, <<keyword("onclick", Name("handler"))>>) >>,
          <<>>)

\* C10: a builder call transpiles to React.createElement('<tag>', <props>) or
\* React.createElement('<tag>', <props>, [<children>]): <props> is null without
\* keyword arguments and an object otherwise, the children array is present
\* exactly when there is a positional argument, children keep argument order
\* and a nested builder call is transpiled by the same rule.
C10_ElementConstructor ==
  (fn = "_transpile_element_expression" /\ IsBuilderCall(node)) =>
    LET head == <<"React.createElement(", "'", C10_Tag(node.func.id), "'", ", ">>
        props == IF node.keywords = <<>> THEN <<"null">>
                 ELSE C9_PropsText(self_now, node.keywords)
        children == [i \in 1..Len(node.args) |-> C10_Child(self_now, node.args[i])]
    IN /\ out = IF node.args = <<>>
                THEN head \o props \o <<")">>
                ELSE head \o props \o <<", ", "[">> \o Join(children, <<", ">>) \o <<"]", ")">>
       /\ node = C10_Example =>
            out = <<"React.createElement(", "'", "div", "'", ", ", "null", ", ", "[",
                      "React.createElement(", "'", "h1", "'", ", ", "null", ", ", "[",
                        Q, "x", Q, "]", ")", ", ",
                      "React.createElement(", "'", "button", "'", ", ",
                        "{", "onClick", ": ", "handler", "}", ", ", "[", Q, "y", Q, "]", ")",
                    "]", ")">>

C10_Witness ==
  /\ fn = "_transpile_element_expression"
  /\ node = C10_Example
  /\ out # <<"null">>

\* ======================================================================
\* Properties of whole-class transpilation and of the remaining rules
\* ======================================================================
\* expression kinds outside the supported grammar
UnsupportedExprKinds == {"Compare", "None"}

\* statement kinds the statement transpiler has a branch for
SupportedStmtKinds == {"Expr", "Assign", "Return"}

HasMethod(c, name) ==
  \E i \in 1..Len(c.body) : c.body[i].kind = "FunctionDef" /\ c.body[i].name = name

GetMethod(c, name) ==
  c.body[CHOOSE i \in 1..Len(c.body) :
           c.body[i].kind = "FunctionDef" /\ c.body[i].name = name]

\* the call was made with the name the class definition carries
FoundByName == fn = "transpile_component" /\ result.name = node.name

\* C11: a class that is found by name transpiles without raising and is
\* registered, whatever its methods contain; an expression of a kind outside
\* the supported set transpiles to null, alone, as a returned value or in
\* element position, and a statement of an unsupported kind is dropped.
C11_GracefulDegradation ==
  /\ FoundByName =>
       /\ ~result.raised
       /\ components = <<[k |-> node.name, v |-> out]>>
       /\ SubSeq(out, 1, 3) = <<"function ", node.name, "(props) {">>
       /\ out[Len(out)] = "}"
       /\ HasMethod(node, "odd") =>
            IsSubText(out, <<"  ", "const ", "odd", " = () => {", "\n",
                             "    ", "return ", "null", ";", "\n", "  };">>)
       /\ (HasMethod(node, "render")
             /\ GetMethod(node, "render").body[1].kind = "Return"
             /\ GetMethod(node, "render").body[1].value.kind \in UnsupportedExprKinds) =>
            SubSeq(out, Len(out) - 5, Len(out))
              = <<"\n", "  return ", "null", ";", "\n", "}">>
  /\ (fn \in {"_transpile_expression", "_transpile_element_expression"}
        /\ node.kind \in UnsupportedExprKinds) =>
       out = <<"null">>
  /\ (fn = "_transpile_statement" /\ node.kind \notin SupportedStmtKinds) => out = <<>>
  /\ (fn = "_transpile_statement" /\ node.kind = "Return"
        /\ node.value.kind \in UnsupportedExprKinds) =>
       out = <<"return ", "null", ";">>
  /\ (fn = "_transpile_method_to_js" /\ node.name \notin lifecycle_methods) =>
       \A i \in 1..Len(node.body) :
          node.body[i].kind \notin SupportedStmtKinds => ~Contains(out, node.body[i].kind)

\* a class whose handler is made of unsupported statements and whose render
\* method returns a comparison was transpiled and registered
C11_Witness ==
  /\ FoundByName
  /\ HasMethod(node, "odd")
  /\ HasMethod(node, "render")
  /\ GetMethod(node, "render").body[1] = Return(Compare(Name("x"), Num("1")))
  /\ DictHas(components, "Widget")
  /\ DictGet(components, "Widget") = out

\* C12: a class without a render method transpiles without raising to a
\* function whose last statement is `return null;`, and it is registered and
\* aggregated like any other component.
C12_MissingRender ==
  (FoundByName /\ ~HasMethod(node, "render")) =>
     /\ ~result.raised
     /\ SubSeq(out, 1, 3) = <<"function ", node.name, "(props) {">>
     /\ SubSeq(out, Len(out) - 3, Len(out)) = <<"\n", "  return null;", "\n", "}">>
     /\ CountToken(out, "  return null;") = 1
     /\ components = <<[k |-> node.name, v |-> out]>>
     /\ generate_complete_js(self_now)
          = <<"// PyReact - Transpiled Components", "\n", "\n">> \o out \o <<"\n">>

\* a class with a handler and no render method was transpiled
C12_Witness ==
  /\ FoundByName
  /\ ~HasMethod(node, "render")
  /\ HasMethod(node, "increment")
  /\ DictHas(components, "Widget")
  /\ out[Len(out) - 2] = "  return null;"

\* C13: a subscript transpiles to state.<key> only when it is
\* self.state[<string literal>]; every other subscript, a non-string constant
\* key included, transpiles to null.
C13_SubscriptOnlyStringKey ==
  (fn = "_transpile_expression" /\ node.kind = "Subscript") =>
    out = IF /\ node.value = SelfState
             /\ node.slice.kind = "Constant"
             /\ node.slice.ctype = "str"
          THEN <<"state", ".", node.slice.value>>
          ELSE <<"null">>

\* C14: a mapping literal transpiles to {k: v, ...} and a sequence literal
\* to [e, ...], keys, values and elements transpiled recursively in order.
C14_LiteralsStructural ==
  /\ (fn = "_transpile_expression" /\ node.kind = "Dict") =>
       out = <<"{">>
               \o Join([i \in 1..Len(node.keys) |->
                          _transpile_expression(self_now, node.keys[i]) \o <<": ">>
                            \o _transpile_expression(self_now, node.values[i])],
                       <<", ">>)
               \o <<"}">>
  /\ (fn = "_transpile_expression" /\ node.kind = "List") =>
       out = <<"[">>
               \o Join([i \in 1..Len(node.elts) |->
                          _transpile_expression(self_now, node.elts[i])],
                       <<", ">>)
               \o <<"]">>

HookToken == "const [state, setState] = React.useState"

\* the constructor is one assignment of a mapping literal to self.state, with
\* distinct constant keys and constant values
HasLiteralState(c) ==
  /\ HasMethod(c, "__init__")
  /\ Len(GetMethod(c, "__init__").body) = 1
  /\ GetMethod(c, "__init__").body[1].kind = "Assign"
  /\ GetMethod(c, "__init__").body[1].targets = <<SelfState>>
  /\ GetMethod(c, "__init__").body[1].value.kind = "Dict"
  /\ \A i \in 1..Len(GetMethod(c, "__init__").body[1].value.keys) :
       /\ GetMethod(c, "__init__").body[1].value.keys[i].kind = "Constant"
       /\ GetMethod(c, "__init__").body[1].value.values[i].kind = "Constant"
       /\ \A j \in 1..(i - 1) :
            GetMethod(c, "__init__").body[1].value.keys[j]
              # GetMethod(c, "__init__").body[1].value.keys[i]

C15_Value(v) ==
  IF v.ctype = "str" THEN <<Q, v.value, Q>>
  ELSE IF v.ctype = "bool" THEN <<Lower(v.value)>>
  ELSE <<v.value>>

\* {k1: v1, k2: v2, ...} in the order of the mapping literal
C15_Initializer(d) ==
  <<"{">>
    \o Join([i \in 1..Len(d.keys) |-> <<d.keys[i].value, ": ">> \o C15_Value(d.values[i])],
            <<", ">>)
    \o <<"}">>

\* C15: the emitted function declares the state hook exactly when the initial
\* state extracted from the constructor is non-empty (never without a
\* constructor, for an empty mapping or for a right-hand side that is not a
\* mapping literal), and for a mapping literal with constant keys and values
\* the initializer lists exactly its keys, in source order, with their values.
C15_StateHook ==
  (FoundByName /\ ~result.raised) =>
     /\ Contains(out, HookToken)
          <=> (_analyze_component_class(node).initial_state # EmptyDict)
     /\ CountToken(out, HookToken) <= 1
     /\ ~HasMethod(node, "__init__") => ~Contains(out, HookToken)
     /\ (HasMethod(node, "__init__")
           /\ (\/ GetMethod(node, "__init__").body[1].targets # <<SelfState>>
               \/ GetMethod(node, "__init__").body[1].value.kind # "Dict"
               \/ GetMethod(node, "__init__").body[1].value.keys = <<>>)) =>
          ~Contains(out, HookToken)
     /\ (HasLiteralState(node) /\ GetMethod(node, "__init__").body[1].value.keys # <<>>) =>
          IsSubText(out,
            <<"(props) {", "\n", "  ", HookToken, "(">>
              \o C15_Initializer(GetMethod(node, "__init__").body[1].value)
              \o <<")", ";", "\n">>)

\* a class whose constructor assigns a three-key state mapping was transpiled
C15_Witness ==
  /\ FoundByName
  /\ HasLiteralState(node)
  /\ Len(GetMethod(node, "__init__").body[1].value.keys) = 3
  /\ IsSubText(out, <<HookToken, "(", "{", "name", ": ", Q, "World", Q, ", ",
                      "on", ": ", "true", ", ", "count", ": ", "0", "}", ")", ";">>)

ArithmeticOps == {"Add", "Sub", "Mult", "Div"}

C16_Symbol(op) ==
  IF op = "Add" THEN " + "
  ELSE IF op = "Sub" THEN " - "
  ELSE IF op = "Mult" THEN " * "
  ELSE " / "

\* a state subscript is written state.<key>, any other operand is what the
\* expression transpiler gives
C16_Operand(self, e) ==
  IF e.kind = "Subscript" /\ e.value = SelfState /\ e.slice.kind = "Constant"
  THEN <<"state", ".", e.slice.value>>
  ELSE _transpile_expression(self, e)

\* C16: a binary operation with +, -, * or / transpiles to
\* <left> <op> <right>, a state subscript appearing as state.<key> on either
\* side (self.state['count'] + 1 gives state.count + 1); with any other
\* operator the two operand texts are separated by one space.
C16_BinaryOperators ==
  (fn = "_transpile_expression" /\ node.kind = "BinOp") =>
     /\ out = C16_Operand(self_now, node.left)
                \o <<IF node.op \in ArithmeticOps THEN C16_Symbol(node.op) ELSE " ">>
                \o C16_Operand(self_now, node.right)
     /\ node = BinOp(StateAt("count"), "Add", Num("1")) =>
          out = <<"state", ".", "count", " + ", "1">>
     /\ node = BinOp(Num("1"), "Mod", StateAt("count")) =>
          out = <<"1", " ", "state", ".", "count">>

C16_Witness ==
  /\ fn = "_transpile_expression"
  /\ node = BinOp(StateAt("count"), "Add", Num("1"))
  /\ out = <<"state", ".", "count", " + ", "1">>

\* an assignment of the render body with a single bare-name target
IsLocalAssign(s) ==
  /\ s.kind = "Assign"
  /\ Len(s.targets) = 1
  /\ s.targets[1].kind = "Name"

IsReturn(s) == s.kind = "Return"

RECURSIVE C19_Scope(_, _)
\* the local bindings after the first n local assignments, each value
\* transpiled in the scope of the assignments before it
C19_Scope(locals, n) ==
  IF n = 0 THEN EmptyDict
  ELSE DictSet(C19_Scope(locals, n - 1), locals[n].targets[1].id,
               _transpile_expression(
                 Instance(EmptyDict, LocalVariables(C19_Scope(locals, n - 1))),
                 locals[n].value))

\* const <name> = <value> for each binding, joined by `; `
C19_Consts(locals) ==
  Join([n \in 1..Len(locals) |->
          <<"const ", locals[n].targets[1].id, " = ">>
            \o _transpile_expression(
                 Instance(EmptyDict, LocalVariables(C19_Scope(locals, n - 1))),
                 locals[n].value)],
       <<"; ">>)

\* the return expression transpiled in element position with every local bound
C19_Return(locals, returns) ==
  _transpile_element_expression(
    Instance(EmptyDict, LocalVariables(C19_Scope(locals, Len(locals)))),
    returns[Len(returns)].value)

\* C19: for a render body with a return statement, every local assignment is
\* emitted as `const name = value` and recorded in the local-binding scope,
\* the return expression is transpiled in the scope that holds them all, and
\* the output is (() => { <consts>; return <expr>; })() exactly when there is
\* at least one local assignment, the return expression alone otherwise.
C19_TwoPhaseRender ==
  (fn = "_transpile_render_method" /\ SelectSeq(node.body, IsReturn) # <<>>) =>
     /\ local_variables
          = LocalVariables(C19_Scope(SelectSeq(node.body, IsLocalAssign),
                                     Len(SelectSeq(node.body, IsLocalAssign))))
     /\ out = IF SelectSeq(node.body, IsLocalAssign) # <<>>
              THEN <<"(() => { ">> \o C19_Consts(SelectSeq(node.body, IsLocalAssign))
                     \o <<"; return ">>
                     \o C19_Return(SelectSeq(node.body, IsLocalAssign),
                                   SelectSeq(node.body, IsReturn))
                     \o <<"; })()">>
              ELSE C19_Return(<<>>, SelectSeq(node.body, IsReturn))
     /\ (out[1] = "(() => { ") <=> (SelectSeq(node.body, IsLocalAssign) # <<>>)

\* a render body that binds `name` and returns an element interpolating it
C19_Witness ==
  /\ fn = "_transpile_render_method"
  /\ node.body = << Assign(<<Name("name")>>, PropsGet(<<Str("name"), StateAt("name")>>)),
                    Return(Builder("h2", <<JoinedStr(<<Str("Hello, "),
                                                       FormattedValue(Name("name"))>>)>>,
                                   <<>>)) >>
  /\ DictHas(local_variables.d, "name")
  /\ out = <<"(() => { ", "const ", "name", " = ",
             "(", "props", ".", "name", " || ", "state", ".", "name", ")",
             "; return ",
             "React.createElement(", "'", "h2", "'", ", ", "null", ", ", "[",
             BackQuote, "Hello, ", "${", "name", "}", BackQuote, "]", ")",
             "; })()">>

\* the local bindings the render method of class c records, none when the
\* class has no render method
OwnBindings(c) ==
  IF _analyze_component_class(FindClassDef(c)[1]).render_method = <<>> THEN EmptyDict
  ELSE _transpile_render_method(
         FreshInstance,
         _analyze_component_class(FindClassDef(c)[1]).render_method[1]
       ).self.local_variables.d

\* C17: the local-binding scope is confined to one render transpilation: the
\* scope a transpile_component call starts with, which is the one its handler
\* methods are transpiled in, holds no binding of an earlier call, and the
\* scope it leaves behind holds only what its own render method recorded.
C17_ScopeConfinedToOneRender ==
  [][(result'.op = "transpile_component" /\ ~result'.raised) =>
       /\ local_variables.d = EmptyDict
       /\ local_variables'.d = OwnBindings(Classes[result'.cls])]_vars

\* C18: the registry is append-only: a successful transpile_component call
\* leaves every entry already present in place with its text unchanged, also
\* when the name transpiled is already registered, and adds at most one entry
\* at the end.
C18_RegistryAppendOnly ==
  [][(result'.op = "transpile_component" /\ ~result'.raised) =>
       /\ Len(components') \in {Len(components), Len(components) + 1}
       /\ SubSeq(components', 1, Len(components)) = components]_vars

\* C20: an emitted function that calls setState or refers to state also
\* holds the declaration const [state, setState] = React.useState(...).
C20_StateHookBound ==
  (result.op = "transpile_component" /\ ~result.raised) =>
     ((Contains(result.js, "setState") \/ Contains(result.js, "state"))
        => Contains(result.js, HookToken))

\* the constructor is one assignment of a mapping literal to self.state whose
\* keys are constants and whose values are constants, lists or mappings
HasStructuredState(c) ==
  /\ HasMethod(c, "__init__")
  /\ Len(GetMethod(c, "__init__").body) = 1
  /\ GetMethod(c, "__init__").body[1].kind = "Assign"
  /\ GetMethod(c, "__init__").body[1].targets = <<SelfState>>
  /\ GetMethod(c, "__init__").body[1].value.kind = "Dict"
  /\ GetMethod(c, "__init__").body[1].value.keys # <<>>
  /\ \A i \in 1..Len(GetMethod(c, "__init__").body[1].value.keys) :
       /\ GetMethod(c, "__init__").body[1].value.keys[i].kind = "Constant"
       /\ GetMethod(c, "__init__").body[1].value.values[i].kind \in {"Constant", "List", "Dict"}
  /\ \E i \in 1..Len(GetMethod(c, "__init__").body[1].value.keys) :
       GetMethod(c, "__init__").body[1].value.values[i].kind \in {"List", "Dict"}

\* a constant as in C15, a list or mapping literal as its array or object text
C21_Value(v) ==
  IF v.kind = "Constant" THEN C15_Value(v) ELSE _ast_to_js_value(v)

C21_Initializer(d) ==
  <<"{">>
    \o Join([i \in 1..Len(d.keys) |-> <<d.keys[i].value, ": ">> \o C21_Value(d.values[i])],
            <<", ">>)
    \o <<"}">>

\* C21: in the state-hook initializer a key whose value is a list or mapping
\* literal is followed by that array or object literal itself (items: []),
\* not by a quoted string holding its text (items: "[]"); only constant
\* string values are in quotes.
C21_StructuredStateValues ==
  (FoundByName /\ ~result.raised /\ HasStructuredState(node)) =>
     IsSubText(out,
       <<"(props) {", "\n", "  ", HookToken, "(">>
         \o C21_Initializer(GetMethod(node, "__init__").body[1].value)
         \o <<")", ";", "\n">>)

====
